---- MODULE Spec2Model ----
(***************************************************************************)
(* A model of src/src/app/models/cnn.py: the class MNISTClassifer, a       *)
(* wrapper around a Keras graph.  An instance is its attribute store       *)
(* (__dict__), a function from attribute names to values; an attribute     *)
(* that is absent is absent from the function's domain.  The document      *)
(* to_json returns IS the attribute store of the instance (line 109 binds  *)
(* out_dict to self.__dict__), so a document is modelled as a reference to *)
(* an instance's store.                                                    *)
(*                                                                         *)
(* The Keras framework is outside the repository.  Its calls are modelled  *)
(* by what the wrapper relies on: layer constructors record the topology   *)
(* and check the shapes, Model() gives a graph a new identity and initial  *)
(* weights, Model.fit picks new weights and a history, get_config drops    *)
(* identity and weights, tolist turns an array into nested lists.          *)
(* The interpreter runs without -O, so assert statements are executed.     *)
(***************************************************************************)
EXTENDS Integers, Sequences, FiniteSets, TLC

\* ---------------------------------------------------------------- bounds
MaxInstances == 2      \* instances created in one run
MaxGraphs == 2         \* Model() objects built in one run

\* Values of the two environment variables read at class definition (29-30).
FeatureLengths == {4, 5, 9}
ClassCounts == {2, 3}

\* Constructor arguments a caller may pass (lines 32-43).
FilterChoices == {2}
KernelChoices == {<<2, 2>>}
ActivationChoices == {"relu"}
PoolChoices == {<<1, 1>>, <<2, 2>>}
UnitChoices == {2}
OptimizerChoices == {"adam"}
LossChoices == {"categorical_crossentropy"}
MetricChoices == {<<"accuracy">>}

\* What the framework can produce: the weights an initialiser gives (seed
\* InitSeed), the weights training leaves (a seed of WeightSeeds), and
\* accuracy values.
InitSeed == 0
WeightSeeds == {1}
AccValues == {0, 1}

NoneVal == [kind |-> "None"]

\* ------------------------------------------------------------- utilities
Has(d, k) == k \in DOMAIN d

Last(s) == s[Len(s)]

RECURSIVE Prod(_)
Prod(s) == IF Len(s) = 0 THEN 1 ELSE Head(s) * Prod(Tail(s))

\* int(np.sqrt(n)): the truncated square root (line 165).
ISqrt(n) == CHOOSE s \in 0..n : s * s <= n /\ (s + 1) * (s + 1) > n

\* ndarray.astype(str) on class indices (line 154).
DigitStr == <<"0", "1", "2", "3", "4", "5", "6", "7", "8", "9">>
AsStr(n) == DigitStr[n + 1]

\* np.argmax along a row: the first position of the maximum, 0-based (152).
ArgMax(row) ==
    CHOOSE k \in 0..(Len(row) - 1) :
        /\ \A j \in 1..Len(row) : row[j] <= row[k + 1]
        /\ \A j \in 1..k : row[j] < row[k + 1]

\* keras.utils.to_categorical(y, num_classes): one row per label, a 1 in the
\* label's column (line 83).
to_categorical(y, n) ==
    [i \in 1..Len(y) |-> [c \in 1..n |-> IF c = y[i] + 1 THEN 1 ELSE 0]]

\* ------------------------------------------------ the framework's arrays
\* An ndarray: its shape and its elements in row-major order.
Array(shape, data) == [shape |-> shape, data |-> data]

\* The elements a weight seed stands for.
Fill(shape, seed) == Array(shape, [k \in 1..Prod(shape) |-> (seed + k) % 3])

\* ndarray.tolist() (line 112): nested lists, one level per dimension.
RECURSIVE Nest(_, _)
Nest(shape, data) ==
    IF Len(shape) <= 1 THEN data
    ELSE LET inner == Prod(Tail(shape))
         IN  [r \in 1..Head(shape) |->
                 Nest(Tail(shape), SubSeq(data, (r - 1) * inner + 1, r * inner))]

tolist(a) == Nest(a.shape, a.data)

\* np.asarray on a nested list of known depth: the shape read off the
\* nesting, the elements flattened (inside set_weights, line 134).
RECURSIVE NestedShape(_, _)
NestedShape(rank, l) ==
    IF rank = 0 THEN <<>>
    ELSE IF Len(l) = 0 THEN <<0>>
    ELSE <<Len(l)>> \o NestedShape(rank - 1, l[1])

RECURSIVE FlattenList(_, _)
FlattenList(rank, l) ==
    IF rank <= 1 THEN l
    ELSE IF Len(l) = 0 THEN <<>>
    ELSE FlattenList(rank - 1, Head(l)) \o FlattenList(rank, Tail(l))

asarray(rank, l) == Array(NestedShape(rank, l), FlattenList(rank, l))

\* ------------------------------------------------ the framework's layers
\* Output shape (without the batch axis) of a layer given its input shape.
LayerOut(l, in) ==
    CASE l.class = "InputLayer" -> l.shape
      [] l.class = "Reshape" -> l.target_shape
      [] l.class = "Conv2D" ->
            <<in[1] - l.kernel_size[1] + 1, in[2] - l.kernel_size[2] + 1, l.filters>>
      [] l.class = "MaxPooling2D" ->
            <<((in[1] - l.pool_size[1]) \div l.pool_size[1]) + 1,
              ((in[2] - l.pool_size[2]) \div l.pool_size[2]) + 1, in[3]>>
      [] l.class = "Flatten" -> <<Prod(in)>>
      [] l.class = "Dense" -> <<l.units>>

\* Whether the framework accepts the layer on that input (it raises a
\* ValueError otherwise: a reshape that changes the element count, a kernel
\* or a pool larger than its input).
LayerOk(l, in) ==
    CASE l.class = "InputLayer" -> TRUE
      [] l.class = "Reshape" -> Prod(l.target_shape) = Prod(in)
      [] l.class = "Conv2D" ->
            /\ l.filters >= 1
            /\ in[1] >= l.kernel_size[1] /\ in[2] >= l.kernel_size[2]
      [] l.class = "MaxPooling2D" ->
            in[1] >= l.pool_size[1] /\ in[2] >= l.pool_size[2]
      [] l.class = "Flatten" -> TRUE
      [] l.class = "Dense" -> l.units >= 1

\* The output shapes of the first k layers, in order.
RECURSIVE Shapes(_, _)
Shapes(layers, k) ==
    IF k = 0 THEN <<>>
    ELSE LET prev == Shapes(layers, k - 1)
         IN  Append(prev, LayerOut(layers[k], IF k = 1 THEN <<>> ELSE prev[k - 1]))

\* The input shape of layer k, given the output shapes of all layers.
InShape(shapes, k) == IF k = 1 THEN <<>> ELSE shapes[k - 1]

\* Whether the framework accepts every layer of the chain.
FrameworkAccepts(layers) ==
    LET shapes == Shapes(layers, Len(layers))
    IN  \A k \in 1..Len(layers) : LayerOk(layers[k], InShape(shapes, k))

\* Shapes of the weight tensors, in the order get_weights enumerates them:
\* kernel then bias of each layer that has weights.
LayerWeightShapes(l, in) ==
    CASE l.class = "Conv2D" ->
            << <<l.kernel_size[1], l.kernel_size[2], in[3], l.filters>>, <<l.filters>> >>
      [] l.class = "Dense" -> << <<in[1], l.units>>, <<l.units>> >>
      [] OTHER -> <<>>

RECURSIVE WeightShapesUpTo(_, _, _)
WeightShapesUpTo(layers, shapes, k) ==
    IF k = 0 THEN <<>>
    ELSE WeightShapesUpTo(layers, shapes, k - 1)
            \o LayerWeightShapes(layers[k], InShape(shapes, k))

WeightShapes(layers) ==
    WeightShapesUpTo(layers, Shapes(layers, Len(layers)), Len(layers))

\* Model(inputs, outputs): a graph object with its own identity and freshly
\* initialised weights (line 191, and Model.from_config at line 133).
Model(layers, id, seed) ==
    LET shapes == WeightShapes(layers)
    IN  [kind |-> "Model", id |-> id, layers |-> layers,
         weights |-> [k \in 1..Len(shapes) |-> Fill(shapes[k], seed)]]

\* The graph after the framework's training loop changed its weights.
Trained(g, seed) ==
    [g EXCEPT !.weights =
        [k \in 1..Len(g.weights) |-> Fill(g.weights[k].shape, seed)]]

IsModel(v) == v.kind = "Model"

InputWidth(g) == g.layers[1].shape[1]
OutputWidth(g) == Last(g.layers).units

\* Model.get_config(): the topology, without identity and weights (110).
get_config(g) == [name |-> "model", layers |-> g.layers]

\* Model.get_weights(): the weight arrays in enumeration order (112).
get_weights(g) == g.weights

\* Model.set_weights(lists): each list becomes an array; the framework
\* refuses a wrong count or a wrong shape (line 134).
SetWeightsOk(g, lists) ==
    /\ Len(lists) = Len(g.weights)
    /\ \A k \in 1..Len(lists) :
          NestedShape(Len(g.weights[k].shape), lists[k]) = g.weights[k].shape

set_weights(g, lists) ==
    [g EXCEPT !.weights =
        [k \in 1..Len(lists) |-> asarray(Len(g.weights[k].shape), lists[k])]]

\* Model.predict(x): one row of class scores per input row.  The scores are
\* a fixed function of the output layer's weights and of the sample.
Scores(g, sample) ==
    LET bias == g.weights[Len(g.weights)].data
        kernel == g.weights[Len(g.weights) - 1].data
    IN  [c \in 1..OutputWidth(g) |-> bias[c] + sample * kernel[c]]

ModelPredict(g, x) == [r \in 1..Len(x.rows) |-> Scores(g, x.rows[r])]

\* ------------------------------------------------------------- the state
VARIABLES
    feature_length,   \* MNISTClassifer.feature_length, class attribute (29)
    num_classes,      \* MNISTClassifer.num_classes, class attribute (30)
    objs,             \* the instances: objs[i] is instance i's __dict__
    docs,             \* instances whose __dict__ a to_json call has returned
    built,            \* Model() objects constructed so far (their identities)
    call              \* the most recent call: operation, receiver, arguments
                      \* the claims speak of, outcome

vars == <<feature_length, num_classes, objs, docs, built, call>>

Instances == 1..Len(objs)

\* Attribute names.
HyperKeys ==
    {"conv_layer_one_filters", "conv_layer_one_kernel_size",
     "conv_layer_one_activation", "max_pooling_layer_one_pool_size",
     "dense_layer_one_num_units", "dense_layer_one_activation",
     "dense_layer_two_num_units", "dense_layer_two_activation"}
TrainKeys == {"optimizer", "loss", "metrics"}
GraphKeys == {"model_config", "model_weights"}

\* The attribute store __init__ leaves behind (lines 47-64).
NewStore(f, k, a, p, u1, a1, u2, a2, o, l, m) ==
    [conv_layer_one_filters |-> f,
     conv_layer_one_kernel_size |-> k,
     conv_layer_one_activation |-> a,
     max_pooling_layer_one_pool_size |-> p,
     dense_layer_one_num_units |-> u1,
     dense_layer_one_activation |-> a1,
     dense_layer_two_num_units |-> u2,
     dense_layer_two_activation |-> a2,
     optimizer |-> o,
     loss |-> l,
     metrics |-> m,
     model |-> NoneVal,
     training_history |-> NoneVal]

\* MNISTClassifer(): every argument at its default (lines 33-43).
DefaultStore ==
    NewStore(20, <<2, 2>>, "relu", <<2, 2>>, 20, "relu", 20, "relu",
             "adam", "categorical_crossentropy", <<"accuracy">>)

\* Whether the instance holds a graph: the attribute exists and is a Model.
HoldsGraph(d) == Has(d, "model") /\ IsModel(d.model)

\* ----------------------------------------------- _get_untrained_model
\* A slip: the output layer sized like the last hidden layer.
untrained_layers_hidden_width(d) ==
    LET num_image_rows == ISqrt(feature_length)
    IN  << [class |-> "InputLayer", shape |-> <<feature_length>>],
           [class |-> "Reshape",
            target_shape |-> <<num_image_rows, num_image_rows, 1>>],
           [class |-> "Conv2D",
            filters |-> d.conv_layer_one_filters,
            kernel_size |-> d.conv_layer_one_kernel_size,
            activation |-> d.conv_layer_one_activation],
           [class |-> "MaxPooling2D",
            pool_size |-> d.max_pooling_layer_one_pool_size],
           [class |-> "Flatten"],
           [class |-> "Dense",
            units |-> d.dense_layer_one_num_units,
            activation |-> d.dense_layer_one_activation],
           [class |-> "Dense",
            units |-> d.dense_layer_two_num_units,
            activation |-> d.dense_layer_two_activation],
           [class |-> "Dense", units |-> d.dense_layer_two_num_units,
            activation |-> "softmax", name |-> "output_layer"] >>

\* The layers _get_untrained_model asks the framework for, in call order
\* (lines 165-189).
untrained_layers(d) ==
    LET num_image_rows == ISqrt(feature_length)
    IN  << [class |-> "InputLayer", shape |-> <<feature_length>>],
           [class |-> "Reshape",
            target_shape |-> <<num_image_rows, num_image_rows, 1>>],
           [class |-> "Conv2D",
            filters |-> d.conv_layer_one_filters,
            kernel_size |-> d.conv_layer_one_kernel_size,
            activation |-> d.conv_layer_one_activation],
           [class |-> "MaxPooling2D",
            pool_size |-> d.max_pooling_layer_one_pool_size],
           [class |-> "Flatten"],
           [class |-> "Dense",
            units |-> d.dense_layer_one_num_units,
            activation |-> d.dense_layer_one_activation],
           [class |-> "Dense",
            units |-> d.dense_layer_two_num_units,
            activation |-> d.dense_layer_two_activation],
           [class |-> "Dense", units |-> num_classes,
            activation |-> "softmax", name |-> "output_layer"] >>

\* _get_untrained_model (lines 156-191): the graph, or the framework's
\* ValueError when it refuses a layer.
_get_untrained_model(d, id) ==
    IF FrameworkAccepts(untrained_layers(d))
    THEN [status |-> "ok", model |-> Model(untrained_layers(d), id, InitSeed)]
    ELSE [status |-> "ValueError"]

\* --------------------------------------------------------------- fit
\* Lines 82-86: the labels handed on to the framework, or the exception.
\* In the else branch the assert reads y_one_hot before any assignment to
\* it, which raises UnboundLocalError whatever the matrix is.
encode_labels(y) ==
    IF y.ndim = 1
    THEN IF \E k \in 1..Len(y.data) : y.data[k] >= num_classes
         THEN [status |-> "IndexError"]
         ELSE [status |-> "ok", y_one_hot |-> to_categorical(y.data, num_classes)]
    ELSE [status |-> "UnboundLocalError"]

\* History.history of Model.fit: one value per epoch under each key; the
\* validation keys exist when **kwargs asks for validation, the accuracy
\* keys when the metrics name accuracy.
History(kwargs, metrics, accs) ==
    LET zeros == [e \in 1..kwargs.epochs |-> 0]
        acc == \E k \in 1..Len(metrics) : metrics[k] = "accuracy"
        base == [loss |-> zeros]
        withAcc == IF acc THEN base @@ [acc |-> zeros] ELSE base
        withVal == IF kwargs.validation
                   THEN withAcc @@ [val_loss |-> zeros] ELSE withAcc
    IN  IF kwargs.validation /\ acc
        THEN withVal @@ [val_acc |-> accs] ELSE withVal

\* A slip: the first epoch's value instead of the last.
final_val_acc_first(history) ==
    IF Has(history, "val_acc")
    THEN [status |-> "ok", value |-> Head(history.val_acc)]
    ELSE [status |-> "KeyError"]

\* Line 98: history.history['val_acc'][-1].
final_val_acc(history) ==
    IF Has(history, "val_acc")
    THEN [status |-> "ok", value |-> Last(history.val_acc)]
    ELSE [status |-> "KeyError"]

\* Model.fit (lines 93-95): the framework refuses features whose width is
\* not the graph's input width or whose row count is not the labels'.
ExternalFitOk(g, x, y_one_hot) ==
    x.width = InputWidth(g) /\ Len(x.rows) = Len(y_one_hot)

\* fit (lines 66-98) on the store d: the store afterwards and the call record.
fit_result(i, d, x, y, kwargs, id, seed, accs) ==
    LET enc == encode_labels(y)
        rec == [op |-> "fit", self |-> i, y |-> y]
        blt == _get_untrained_model(d, id)
    IN  IF enc.status # "ok"
        THEN [store |-> d, built |-> 0, call |-> rec @@ [status |-> enc.status]]
        ELSE IF blt.status # "ok"
        THEN [store |-> d, built |-> 0, call |-> rec @@ [status |-> blt.status]]
        ELSE LET g0 == blt.model
                 d0 == [k \in DOMAIN d \cup {"model"} |->
                           IF k = "model" THEN g0 ELSE d[k]]
             IN  IF ~ExternalFitOk(g0, x, enc.y_one_hot)
                 THEN [store |-> d0, built |-> 1,
                       call |-> rec @@ [status |-> "ValueError",
                                        ext |-> [y |-> enc.y_one_hot]]]
                 ELSE LET g1 == Trained(g0, seed)
                          d1 == [d0 EXCEPT !.model = g1]
                          history == History(kwargs, d.metrics, accs)
                          ret == final_val_acc(history)
                      IN  [store |-> d1, built |-> 1,
                           call |-> rec @@ ret
                                    @@ [ext |-> [y |-> enc.y_one_hot,
                                                 history |-> history]]]

\* ----------------------------------------------------------- to_json
\* A slip: the last weight tensor left out of the document.
to_json_result_short(i, d) ==
    IF ~HoldsGraph(d)
    THEN [store |-> d,
          call |-> [op |-> "to_json", self |-> i, status |-> "AttributeError"]]
    ELSE LET g == d.model
             keys == (DOMAIN d \cup GraphKeys) \ {"model"}
             out_dict ==
                 [k \in keys |->
                     IF k = "model_config" THEN get_config(g)
                     ELSE IF k = "model_weights"
                          THEN [n \in 1..(Len(get_weights(g)) - 1) |->
                                    tolist(get_weights(g)[n])]
                          ELSE d[k]]
         IN  [store |-> out_dict,
              call |-> [op |-> "to_json", self |-> i, status |-> "ok",
                        value |-> i, model |-> g]]

\* A slip the other way: out_dict a copy of the store, the instance untouched.
to_json_result_copy(i, d) ==
    IF ~HoldsGraph(d)
    THEN [store |-> d,
          call |-> [op |-> "to_json", self |-> i, status |-> "AttributeError"]]
    ELSE [store |-> d,
          call |-> [op |-> "to_json", self |-> i, status |-> "ok",
                    value |-> i, model |-> d.model]]

\* to_json (lines 100-117) on the store d.  out_dict is self.__dict__, so
\* the two assignments and the pop act on the instance's own store.  The
\* call record keeps the graph the call serialised and the instance whose
\* store is returned.
to_json_result(i, d) ==
    IF ~HoldsGraph(d)
    THEN [store |-> d,
          call |-> [op |-> "to_json", self |-> i, status |-> "AttributeError"]]
    ELSE LET g == d.model
             keys == (DOMAIN d \cup GraphKeys) \ {"model"}
             out_dict ==
                 [k \in keys |->
                     IF k = "model_config" THEN get_config(g)
                     ELSE IF k = "model_weights"
                          THEN [n \in 1..Len(get_weights(g)) |->
                                    tolist(get_weights(g)[n])]
                          ELSE d[k]]
         IN  [store |-> out_dict,
              call |-> [op |-> "to_json", self |-> i, status |-> "ok",
                        value |-> i, model |-> g]]

\* --------------------------------------------------------- from_json
\* A slip: the graph rebuilt from its config, the weights never loaded.
from_json_result_no_weights(ref, doc, id) ==
    LET rec == [op |-> "from_json", self |-> 0, arg |-> ref]
    IN  IF ~(Has(doc, "model_config") /\ Has(doc, "model_weights"))
        THEN [status |-> "KeyError", built |-> 0,
              call |-> rec @@ [status |-> "KeyError"]]
        ELSE LET copied == DOMAIN doc \ GraphKeys
                 new_obj == [k \in DOMAIN DefaultStore \cup copied |->
                                IF k \in copied THEN doc[k] ELSE DefaultStore[k]]
                 g == Model(doc.model_config.layers, id, InitSeed)
             IN  [status |-> "ok", built |-> 1,
                  store |-> [k \in DOMAIN new_obj \cup {"model"} |->
                                IF k = "model" THEN g ELSE new_obj[k]],
                  call |-> rec @@ [status |-> "ok"]]

\* from_json (lines 119-136) on the document doc: the new instance's store.
from_json_result(ref, doc, id) ==
    LET rec == [op |-> "from_json", self |-> 0, arg |-> ref]
    IN  IF ~(Has(doc, "model_config") /\ Has(doc, "model_weights"))
        THEN [status |-> "KeyError", built |-> 0,
              call |-> rec @@ [status |-> "KeyError"]]
        ELSE LET copied == DOMAIN doc \ GraphKeys
                 new_obj == [k \in DOMAIN DefaultStore \cup copied |->
                                IF k \in copied THEN doc[k] ELSE DefaultStore[k]]
                 g == Model(doc.model_config.layers, id, InitSeed)
             IN  IF ~SetWeightsOk(g, doc.model_weights)
                 THEN [status |-> "ValueError", built |-> 1,
                       call |-> rec @@ [status |-> "ValueError"]]
                 ELSE [status |-> "ok", built |-> 1,
                       store |-> [k \in DOMAIN new_obj \cup {"model"} |->
                                     IF k = "model"
                                     THEN set_weights(g, doc.model_weights)
                                     ELSE new_obj[k]],
                       call |-> rec @@ [status |-> "ok"]]

\* ----------------------------------------------------------- predict
\* A slip: no graph, so no predictions, and no error either.
predict_result_silent(d, x) ==
    IF ~HoldsGraph(d) THEN [status |-> "ok", value |-> <<>>]
    ELSE IF x.width # InputWidth(d.model) THEN [status |-> "ValueError"]
    ELSE LET y_pred == ModelPredict(d.model, x)
         IN  [status |-> "ok",
              value |-> [r \in 1..Len(y_pred) |-> AsStr(ArgMax(y_pred[r]))]]

\* predict (lines 140-154) on the store d.
predict_result(d, x) ==
    IF ~HoldsGraph(d) THEN [status |-> "AttributeError"]
    ELSE IF x.width # InputWidth(d.model) THEN [status |-> "ValueError"]
    ELSE LET y_pred == ModelPredict(d.model, x)
         IN  [status |-> "ok",
              value |-> [r \in 1..Len(y_pred) |-> AsStr(ArgMax(y_pred[r]))]]

\* ------------------------------------------------------------ the inputs
\* Feature matrices: a width, right or wrong, and rows of samples.
FeatureMatrices(rows) == [width : {feature_length, feature_length + 1}, rows : rows]

\* The rows a caller predicts on, and the rows a caller trains on with n labels.
PredictRows == {<<>>, <<0>>, <<1, 0>>}
TrainRows(n) == {[k \in 1..n |-> 0]}

\* Label vectors a caller passes: labels of every class of the largest
\* class count, so that the smaller class count sees a label out of range.
LabelVectors == {<<0>>, <<2>>, <<1, 0>>}

VectorInputs == {[ndim |-> 1, data |-> v] : v \in LabelVectors}

\* Label matrices a caller passes: the one-hot rows of a label vector, at a
\* width that holds every label of it.
MatrixWidths == {2, 3}

OneHotMatrices(w) ==
    {to_categorical(v, w) :
        v \in {u \in LabelVectors : \A k \in 1..Len(u) : u[k] < w}}

MatrixInputs ==
    {[ndim |-> 2, data |-> m] : m \in UNION {OneHotMatrices(w) : w \in MatrixWidths}}

\* What **kwargs forwards to Model.fit: the epochs, and whether validation
\* data or a validation split is given.
EpochChoices == {1, 2}
KwargInputs == [epochs : EpochChoices, validation : BOOLEAN]

\* The validation accuracies training can report under kwargs.
AccSeqs(kwargs) ==
    IF kwargs.validation
    THEN [1..kwargs.epochs -> AccValues] ELSE {[e \in 1..kwargs.epochs |-> 0]}

\* ----------------------------------------------------------- the actions
\* One instance, constructed with arguments of the caller's choice (lines
\* 32-64), in a process whose environment set the two class attributes.
Init ==
    /\ feature_length \in FeatureLengths
    /\ num_classes \in ClassCounts
    /\ \E f \in FilterChoices, k \in KernelChoices, a \in ActivationChoices,
          p \in PoolChoices, u \in UnitChoices, o \in OptimizerChoices,
          l \in LossChoices, m \in MetricChoices :
          objs = <<NewStore(f, k, a, p, u, a, u, a, o, l, m)>>
    /\ docs = {}
    /\ built = 0
    /\ call = [op |-> "__init__", self |-> 1, status |-> "ok"]

\* instance.fit(x_train, y_train, batch_size, **kwargs) (lines 66-98).
fit(i, x, y, batch_size, kwargs, seed, accs) ==
    /\ built < MaxGraphs
    /\ LET r == fit_result(i, objs[i], x, y, kwargs, built + 1, seed, accs)
       IN  /\ objs' = [objs EXCEPT ![i] = r.store]
           /\ built' = built + r.built
           /\ call' = r.call
    /\ UNCHANGED <<feature_length, num_classes, docs>>

\* instance.to_json() (lines 100-117).
to_json(i) ==
    /\ LET r == to_json_result(i, objs[i])
       IN  /\ objs' = [objs EXCEPT ![i] = r.store]
           /\ call' = r.call
           /\ docs' = IF r.call.status = "ok" THEN docs \cup {i} ELSE docs
    /\ UNCHANGED <<feature_length, num_classes, built>>

\* MNISTClassifer.from_json(document) (lines 119-136), on a document an
\* earlier to_json returned.
from_json(ref) ==
    /\ ref \in docs
    /\ Len(objs) < MaxInstances
    /\ built < MaxGraphs
    /\ LET r == from_json_result(ref, objs[ref], built + 1)
       IN  /\ objs' = IF r.status = "ok" THEN Append(objs, r.store) ELSE objs
           /\ built' = built + r.built
           /\ call' = IF r.status = "ok"
                      THEN r.call @@ [value |-> Len(objs) + 1] ELSE r.call
    /\ UNCHANGED <<feature_length, num_classes, docs>>

\* instance.predict(x_predict) (lines 140-154).
predict(i, x) ==
    /\ call' = [op |-> "predict", self |-> i] @@ predict_result(objs[i], x)
    /\ UNCHANGED <<feature_length, num_classes, objs, docs, built>>

Samples(y) == Len(y.data)

Next ==
    \/ \E i \in Instances, y \in VectorInputs, kwargs \in KwargInputs,
          seed \in WeightSeeds :
          \E x \in FeatureMatrices(TrainRows(Samples(y))), accs \in AccSeqs(kwargs) :
              fit(i, x, y, 1, kwargs, seed, accs)
    \/ \E i \in Instances, y \in MatrixInputs, kwargs \in KwargInputs,
          seed \in WeightSeeds :
          \E x \in FeatureMatrices(TrainRows(Samples(y))), accs \in AccSeqs(kwargs) :
              fit(i, x, y, 1, kwargs, seed, accs)
    \/ \E i \in Instances : to_json(i)
    \/ \E ref \in Instances : from_json(ref)
    \/ \E i \in Instances, x \in FeatureMatrices(PredictRows) : predict(i, x)

Spec == Init /\ [][Next]_vars

\* ------------------------------------------------------------ the claims
\* The labels of a call are acceptable when fit is meant to train on them:
\* a vector of labels below the class count, or a matrix as wide as it.
Width(y) == Len(y.data[1])

AcceptableLabels(y) ==
    IF y.ndim = 1
    THEN \A k \in 1..Len(y.data) : y.data[k] < num_classes
    ELSE Width(y) = num_classes

\* The one-hot rows of a label vector, written out.
OneHot(v, n) == [r \in 1..Len(v) |-> [c \in 1..n |-> IF c - 1 = v[r] THEN 1 ELSE 0]]

LayerClasses(layers) == [k \in 1..Len(layers) |-> layers[k].class]

\* C1: predict on an instance that holds no graph (its model attribute is
\* None or absent) ends in an error and returns no prediction sequence,
\* whatever the input.  predict leaves the store alone, so the receiver after
\* the call is the receiver the call saw.
C1_PredictWithoutGraphFails ==
    (call.op = "predict" /\ ~HoldsGraph(objs[call.self]))
        => (call.status = "AttributeError" /\ ~Has(call, "value"))

C1_Witness ==
    /\ call.op = "predict"
    /\ Has(objs[call.self], "model")
    /\ objs[call.self].model = NoneVal
    /\ call.status = "AttributeError"

\* C2 (as claimed): fit with a label matrix whose width is not the class
\* count fails with an assertion error, before a graph is built and before
\* the framework's training routine is called, the store left as it was.
C2_WrongWidthFailsWithAssertion ==
    [][(call'.op = "fit" /\ call'.y.ndim = 2 /\ Width(call'.y) # num_classes)
          => /\ call'.status = "AssertionError"
             /\ ~Has(call', "ext")
             /\ objs' = objs
             /\ built' = built]_vars

\* C3 (as claimed): a label vector with labels below the class count and
\* its one-hot matrix both reach the framework's training routine, with the
\* same label matrix (whenever the framework accepts the layers).
C3_VectorAndMatrixEncodeAlike ==
    \A v \in LabelVectors :
        (/\ call.op = "fit"
         /\ \A k \in 1..Len(v) : v[k] < num_classes
         /\ \/ call.y.ndim = 1 /\ call.y.data = v
            \/ call.y.ndim = 2 /\ call.y.data = OneHot(v, num_classes)
         /\ FrameworkAccepts(untrained_layers(objs[call.self])))
            => (Has(call, "ext") /\ call.ext.y = OneHot(v, num_classes))

\* C4: from_json right after to_json, on the document it returned, gives a
\* new instance with the hyperparameters, optimizer, loss and metrics of the
\* original, and a graph with the config and the weights the original's graph
\* had when it was serialised; predict answers alike on both, for every input.
C4_RoundTrip ==
    [][(/\ call.op = "to_json" /\ call.status = "ok"
        /\ call'.op = "from_json" /\ call'.arg = call.value)
          => /\ call'.status = "ok"
             /\ LET orig == objs[call.self]
                    new == objs'[call'.value]
                    g == call.model
                IN  /\ \A k \in HyperKeys \cup TrainKeys : new[k] = orig[k]
                    /\ HoldsGraph(new)
                    /\ get_config(new.model) = get_config(g)
                    /\ get_weights(new.model) = get_weights(g)
                    /\ \A x \in FeatureMatrices(PredictRows) :
                          predict_result(new, x) = predict_result([model |-> g], x)]_vars

\* A deserialised instance whose graph carries trained weights.
C4_Witness ==
    /\ call.op = "from_json" /\ call.status = "ok"
    /\ ~Has(objs[call.arg], "model")
    /\ \E seed \in WeightSeeds :
          objs[call.value].model.weights = Trained(objs[call.value].model, seed).weights

C6_FinalValidationAccuracy ==
    (call.op = "fit" /\ Has(call, "ext") /\ Has(call.ext, "history"))
        => IF Has(call.ext.history, "val_acc")
           THEN /\ call.status = "ok"
                /\ call.value =
                      call.ext.history.val_acc[Len(call.ext.history.val_acc)]
           ELSE call.status = "KeyError" /\ ~Has(call, "value")

\* Two epochs whose validation accuracies differ: the last one is returned.
C6_Witness ==
    /\ call.op = "fit" /\ call.status = "ok"
    /\ call.ext.history.val_acc = <<1, 0>>
    /\ call.value = 0

\* C7 (as claimed): every fit call on acceptable labels replaces the graph
\* the instance holds by one built in that call from the current
\* hyperparameters (whenever the framework accepts the layers).
C7_FitAlwaysRebuilds ==
    [][(/\ call'.op = "fit"
        /\ AcceptableLabels(call'.y)
        /\ FrameworkAccepts(untrained_layers(objs[call'.self])))
          => /\ built' = built + 1
             /\ HoldsGraph(objs'[call'.self])
             /\ objs'[call'.self].model.id = built'
             /\ objs'[call'.self].model.layers = untrained_layers(objs[call'.self])]_vars

\* C8: the document a successful to_json returns has every attribute the
\* instance had apart from the graph (hyperparameters, optimizer, loss,
\* metrics, training_history) with its value, the graph's config under
\* model_config, the graph's weights as nested lists under model_weights, one
\* per weight tensor in order, and no model key.
C8_DocumentContents ==
    [][(call'.op = "to_json" /\ call'.status = "ok")
          => LET before == objs[call'.self]
                 doc == objs'[call'.value]
                 g == before.model
             IN  /\ HyperKeys \cup TrainKeys \cup {"training_history"}
                        \subseteq DOMAIN before
                 /\ \A k \in DOMAIN before \ (GraphKeys \cup {"model"}) :
                        Has(doc, k) /\ doc[k] = before[k]
                 /\ Has(doc, "model_config")
                 /\ doc.model_config.layers = g.layers
                 /\ Has(doc, "model_weights")
                 /\ Len(doc.model_weights) = Len(g.weights)
                 /\ \A n \in 1..Len(g.weights) :
                        /\ NestedShape(Len(g.weights[n].shape), doc.model_weights[n])
                              = g.weights[n].shape
                        /\ FlattenList(Len(g.weights[n].shape), doc.model_weights[n])
                              = g.weights[n].data
                 /\ ~Has(doc, "model")]_vars

\* A document of a trained graph.
C8_Witness ==
    /\ call.op = "to_json" /\ call.status = "ok"
    /\ \E seed \in WeightSeeds : call.model.weights = Trained(call.model, seed).weights
    /\ Has(objs[call.value], "model_weights")
    /\ Len(objs[call.value].model_weights) = Len(call.model.weights)

\* C9: the document to_json returns is the instance's own store: after a
\* successful to_json the instance has no model attribute and has the
\* attributes model_config and model_weights; and on an instance without a
\* model attribute, predict and to_json fail and change nothing.
C9_ToJsonMutatesInstance ==
    [][/\ (call'.op = "to_json" /\ call'.status = "ok")
            => /\ Has(objs[call'.self], "model")
               /\ call'.value = call'.self
               /\ ~Has(objs'[call'.self], "model")
               /\ Has(objs'[call'.self], "model_config")
               /\ Has(objs'[call'.self], "model_weights")
       /\ (call'.op \in {"predict", "to_json"} /\ ~Has(objs[call'.self], "model"))
            => /\ call'.status = "AttributeError"
               /\ ~Has(call', "value")
               /\ objs' = objs]_vars

\* A second to_json on an instance that was serialised and not fitted since.
C9_Witness ==
    /\ call.op = "to_json" /\ call.status = "AttributeError"
    /\ call.self \in docs
    /\ ~Has(objs[call.self], "model")
    /\ Has(objs[call.self], "model_config")

\* C10 (as claimed): after a successful fit the instance's training_history
\* attribute holds the history of that fit.
C10_FitRecordsHistory ==
    (call.op = "fit" /\ call.status = "ok")
        => /\ objs[call.self].training_history # NoneVal
           /\ objs[call.self].training_history.history = call.ext.history

====
